---- MODULE Spec2Model ----
(***************************************************************************)
(* hex-words (src/main.rs): reads a newline-delimited wordlist, keeps the  *)
(* words spelled only with letters that have a hexadecimal look-alike,     *)
(* optionally renders them as 0x... strings, sorts them, writes them to an *)
(* output file and prints statistics.                                      *)
(*                                                                         *)
(* Characters are modelled by their code points, strings by sequences of   *)
(* code points, so that ordering and table lookups are computed, not       *)
(* assumed.  The f64 percentage of the statistics is not modelled.         *)
(***************************************************************************)
EXTENDS Integers, Sequences, FiniteSets, TLC

VARIABLES
    file,         \* bytes of the input wordlist
    in_ok,        \* the input path can be opened
    translate,    \* args.translate
    output,       \* args.output is Some(path)
    pc,           \* position of main
    pos,          \* read position of the BufReader in file (1-based)
    words,        \* Vec<String> built by read_words_from_file
    valid_words,  \* Vec<String> of main
    widx,         \* index in valid_words of the write loop
    out_exists,   \* the output path names an existing file
    out_bytes,    \* bytes of the output file
    stdout,       \* lines printed so far
    total_words,  \* value printed as "Total Words in Wordlist"
    total_valid,  \* value printed as "Valid Words"
    arg,          \* argument of a direct call of a library function
    call,         \* which function was called directly ("none" if none)
    ret_words,    \* value returned by find_words
    ret_hex       \* value returned by translate_to_hex

vars == <<file, in_ok, translate, output, pc, pos, words, valid_words, widx,
          out_exists, out_bytes, stdout, total_words, total_valid,
          arg, call, ret_words, ret_hex>>

pipeVars == <<file, in_ok, output, pc, pos, words, valid_words, widx,
              out_exists, out_bytes, stdout, total_words, total_valid>>

callVars == <<arg, call, ret_words, ret_hex>>

-----------------------------------------------------------------------------
(* Bounds and input alphabets *)

MaxFileLen == 5

MaxArgLen == 3

\* '\n', ' ', 'A', 'a', 's'
FileChars == {10, 32, 65, 97, 115}

\* the 13 table letters, and ' ', '-', '1', ':', '?', 'A', 'h'
ArgChars == {97, 98, 99, 100, 101, 102, 103, 105, 108, 111, 115, 116, 122,
             32, 45, 49, 58, 63, 65, 104}

\* bytes left in the output file by an earlier run: "h\n"
OldOutput == <<104, 10>>

\* longest entry of valid_words: a word of MaxFileLen letters, ":0x", its glyphs
MaxEntryLen == 2 * MaxFileLen + 3

SeqsUpTo(S, n) == UNION {[1..k -> S] : k \in 0..n}

-----------------------------------------------------------------------------
(* Strings *)

MinOf(S) == CHOOSE x \in S : \A y \in S : x <= y

MaxOf(S) == CHOOSE x \in S : \A y \in S : x >= y

\* char::is_whitespace: the Unicode White_Space code points
IsWhitespace(c) ==
    \/ c \in 9..13
    \/ c \in {32, 133, 160, 5760, 8232, 8233, 8239, 8287, 12288}
    \/ c \in 8192..8202

\* variant of trim: only leading whitespace is dropped (trim_start)
trim_start(s) ==
    LET keep == {i \in 1..Len(s) : ~IsWhitespace(s[i])}
    IN  IF keep = {} THEN <<>> ELSE SubSeq(s, MinOf(keep), Len(s))

\* str::trim: drop leading and trailing whitespace
trim(s) ==
    LET keep == {i \in 1..Len(s) : ~IsWhitespace(s[i])}
    IN  IF keep = {} THEN <<>> ELSE SubSeq(s, MinOf(keep), MaxOf(keep))

\* Ord for String: lexicographic by code point, a proper prefix sorts first
StrLeq(a, b) ==
    LET n == IF Len(a) < Len(b) THEN Len(a) ELSE Len(b)
        diff == {i \in 1..n : a[i] # b[i]}
    IN  IF diff = {} THEN Len(a) <= Len(b)
        ELSE a[MinOf(diff)] < b[MinOf(diff)]

RECURSIVE InsertSorted(_, _)
InsertSorted(s, x) ==
    IF s = <<>> THEN <<x>>
    ELSE IF StrLeq(s[Len(s)], x) THEN Append(s, x)
    ELSE Append(InsertSorted(SubSeq(s, 1, Len(s) - 1), x), s[Len(s)])

\* variant of sort: the call is left out
sort_omitted(s) == s

\* Vec<String>::sort (stable, ascending)
RECURSIVE sort(_)
sort(s) ==
    IF s = <<>> THEN <<>>
    ELSE InsertSorted(sort(SubSeq(s, 1, Len(s) - 1)), s[Len(s)])

-----------------------------------------------------------------------------
(* BufRead::lines over the bytes of a file *)

\* index of the '\n' ending the line that starts at p, Len+1 if there is none
LineEnd(bytes, p) ==
    LET nl == {j \in p..Len(bytes) : bytes[j] = 10}
    IN  IF nl = {} THEN Len(bytes) + 1 ELSE MinOf(nl)

\* the line that starts at p, without its "\n" or "\r\n"
LineAt(bytes, p) ==
    LET e == LineEnd(bytes, p)
        raw == SubSeq(bytes, p, e - 1)
    IN  IF e <= Len(bytes) /\ raw # <<>> /\ raw[Len(raw)] = 13
        THEN SubSeq(raw, 1, Len(raw) - 1)
        ELSE raw

\* read position after the line that starts at p
NextPos(bytes, p) ==
    LET e == LineEnd(bytes, p)
    IN  IF e <= Len(bytes) THEN e + 1 ELSE e

-----------------------------------------------------------------------------
(* find_words and translate_to_hex *)

\* variant of valid_letters: "abcdefghilostz"
valid_letters_with_h ==
    {97, 98, 99, 100, 101, 102, 103, 104, 105, 108, 111, 115, 116, 122}

\* "abcdefgilostz"
valid_letters == {97, 98, 99, 100, 101, 102, 103, 105, 108, 111, 115, 116, 122}

letter_to_hex ==
    (97 :> 65) @@ (98 :> 66) @@ (99 :> 67) @@ (100 :> 68) @@ (101 :> 69) @@
    (102 :> 70) @@ (103 :> 54) @@ (105 :> 49) @@ (108 :> 49) @@ (111 :> 48) @@
    (115 :> 53) @@ (116 :> 55) @@ (122 :> 50)

\* variant of HexOf: a character outside the table is kept as it is
HexOf_keep(c) == IF c \in DOMAIN letter_to_hex THEN letter_to_hex[c] ELSE c

\* letter_to_hex.get(&c).unwrap_or(&'?')
HexOf(c) == IF c \in DOMAIN letter_to_hex THEN letter_to_hex[c] ELSE 63

\* format!("0x{}", hex_string)
translate_to_hex(word) ==
    <<48, 120>> \o [i \in 1..Len(word) |-> HexOf(word[i])]

\* variant of IsTranslatable: some letter of the word is translatable
IsTranslatable_some(word) ==
    {word[i] : i \in 1..Len(word)} \cap valid_letters # {}

\* word.chars().collect::<HashSet<char>>().is_subset(&valid_letters)
IsTranslatable(word) ==
    {word[i] : i \in 1..Len(word)} \subseteq valid_letters

\* variant of FormatEntry: format!("{}|{}", word, translated)
FormatEntry_bar(word, t) ==
    IF t THEN word \o <<124>> \o translate_to_hex(word) ELSE word

\* the pushed entry: format!("{}:{}", word, translated), or the word itself
FormatEntry(word, t) ==
    IF t THEN word \o <<58>> \o translate_to_hex(word) ELSE word

\* variant of find_words: the else is missing, a translated word is pushed
\* twice, as its entry and as itself
RECURSIVE find_words_no_else(_, _)
find_words_no_else(wordlist, t) ==
    IF wordlist = <<>> THEN <<>>
    ELSE LET word == Head(wordlist)
             pushed == IF ~IsTranslatable(word) THEN <<>>
                       ELSE IF t THEN <<FormatEntry(word, t), word>>
                       ELSE <<word>>
         IN  pushed \o find_words_no_else(Tail(wordlist), t)

find_words(wordlist, t) ==
    LET kept == SelectSeq(wordlist, IsTranslatable)
    IN  [i \in 1..Len(kept) |-> FormatEntry(kept[i], t)]

-----------------------------------------------------------------------------
(* main *)

Init ==
    /\ file \in SeqsUpTo(FileChars, MaxFileLen)
    /\ in_ok \in BOOLEAN
    /\ translate \in BOOLEAN
    /\ output \in BOOLEAN
    /\ pc = "start"
    /\ pos = 1
    /\ words = <<>>
    /\ valid_words = <<>>
    /\ widx = 1
    /\ out_exists \in BOOLEAN
    /\ out_bytes = IF out_exists THEN OldOutput ELSE <<>>
    /\ stdout = <<>>
    /\ total_words = 0
    /\ total_valid = 0
    /\ arg = <<>>
    /\ call = "none"
    /\ ret_words = <<>>
    /\ ret_hex = <<>>

\* variant of OpenInput: the output file is created before the input is read
OpenInput_output_first ==
    /\ pc = "start"
    /\ pc' = IF ~in_ok THEN "read_error"
             ELSE IF Len(file) = 0 THEN "find" ELSE "reading"
    /\ out_exists' = (out_exists \/ output)
    /\ out_bytes' = IF output THEN <<>> ELSE out_bytes
    /\ UNCHANGED <<file, in_ok, translate, output, pos, words, valid_words,
                   widx, stdout, total_words, total_valid>>
    /\ UNCHANGED <<arg, call, ret_words, ret_hex>>

\* File::open(filename)?; main returns the error (pc = "read_error") if the
\* file cannot be opened; an empty file yields no line
OpenInput ==
    /\ pc = "start"
    /\ pc' = IF ~in_ok THEN "read_error"
             ELSE IF Len(file) = 0 THEN "find" ELSE "reading"
    /\ UNCHANGED <<file, in_ok, translate, output, pos, words, valid_words,
                   widx, out_exists, out_bytes, stdout, total_words,
                   total_valid>>
    /\ UNCHANGED callVars

\* one iteration of the loop over reader.lines(); decoded tells whether the
\* line is valid UTF-8 and was read without an I/O error
ReadLine(decoded) ==
    /\ pc = "reading"
    /\ pos <= Len(file)
    /\ IF decoded
       THEN LET word == trim(LineAt(file, pos))
            IN  /\ words' = IF word # <<>> THEN Append(words, word) ELSE words
                /\ pos' = NextPos(file, pos)
                /\ pc' = IF pos' > Len(file) THEN "find" ELSE "reading"
       ELSE /\ pc' = "read_error"
            /\ UNCHANGED <<words, pos>>
    /\ UNCHANGED <<file, in_ok, translate, output, valid_words, widx,
                   out_exists, out_bytes, stdout, total_words, total_valid>>
    /\ UNCHANGED callVars

\* find_words(words.clone(), args.translate)?; valid_words.sort()
FindAndSort ==
    /\ pc = "find"
    /\ valid_words' = sort(find_words(words, translate))
    /\ pc' = IF output THEN "create" ELSE "stats"
    /\ UNCHANGED <<file, in_ok, translate, output, pos, words, widx,
                   out_exists, out_bytes, stdout, total_words, total_valid>>
    /\ UNCHANGED callVars

\* File::create(&output_file)?: creates or truncates the file; main returns
\* the error (pc = "create_error") if it cannot
CreateOutput(created) ==
    /\ pc = "create"
    /\ IF created
       THEN /\ out_exists' = TRUE
            /\ out_bytes' = <<>>
            /\ widx' = 1
            /\ pc' = IF Len(valid_words) = 0 THEN "wrote" ELSE "writing"
       ELSE /\ pc' = "create_error"
            /\ UNCHANGED <<out_exists, out_bytes, widx>>
    /\ UNCHANGED <<file, in_ok, translate, output, pos, words, valid_words,
                   stdout, total_words, total_valid>>
    /\ UNCHANGED callVars

\* variant of WriteLine: no break after a failed write
WriteLine_no_break(ok, n) ==
    /\ pc = "writing"
    /\ widx <= Len(valid_words)
    /\ n <= Len(valid_words[widx])
    /\ IF ok
       THEN /\ n = 0
            /\ out_bytes' = out_bytes \o valid_words[widx] \o <<10>>
            /\ UNCHANGED stdout
       ELSE /\ out_bytes' = out_bytes \o SubSeq(valid_words[widx], 1, n)
            /\ stdout' = Append(stdout, "Failed to write results!")
    /\ widx' = widx + 1
    /\ pc' = IF widx' > Len(valid_words) THEN "wrote" ELSE "writing"
    /\ UNCHANGED <<file, in_ok, translate, output, pos, words, valid_words,
                   out_exists, total_words, total_valid>>
    /\ UNCHANGED <<arg, call, ret_words, ret_hex>>

\* one iteration of the write loop: writeln!(file, "{}", word).  A failed
\* write may have put the first n bytes of the line (n <= its length, the
\* newline excluded) in the file.
WriteLine(ok, n) ==
    /\ pc = "writing"
    /\ widx <= Len(valid_words)
    /\ n <= Len(valid_words[widx])
    /\ IF ok
       THEN /\ n = 0
            /\ out_bytes' = out_bytes \o valid_words[widx] \o <<10>>
            /\ widx' = widx + 1
            /\ pc' = IF widx' > Len(valid_words) THEN "wrote" ELSE "writing"
            /\ UNCHANGED stdout
       ELSE /\ out_bytes' = out_bytes \o SubSeq(valid_words[widx], 1, n)
            /\ stdout' = Append(stdout, "Failed to write results!")
            /\ pc' = "wrote"
            /\ UNCHANGED widx
    /\ UNCHANGED <<file, in_ok, translate, output, pos, words, valid_words,
                   out_exists, total_words, total_valid>>
    /\ UNCHANGED callVars

\* println!("Successfully wrote results to {}!\n", ...) after the loop
PrintWrote ==
    /\ pc = "wrote"
    /\ stdout' = Append(stdout, "Successfully wrote results to <path>!")
    /\ pc' = "stats"
    /\ UNCHANGED <<file, in_ok, translate, output, pos, words, valid_words,
                   widx, out_exists, out_bytes, total_words, total_valid>>
    /\ UNCHANGED callVars

\* the "Basic Stats" block
PrintStats ==
    /\ pc = "stats"
    /\ total_words' = Len(words)
    /\ total_valid' = Len(valid_words)
    /\ stdout' = Append(stdout, "== STATS ==")
    /\ pc' = "done"
    /\ UNCHANGED <<file, in_ok, translate, output, pos, words, valid_words,
                   widx, out_exists, out_bytes>>
    /\ UNCHANGED callVars

Next ==
    \/ OpenInput
    \/ \E decoded \in BOOLEAN : ReadLine(decoded)
    \/ FindAndSort
    \/ \E created \in BOOLEAN : CreateOutput(created)
    \/ \E ok \in BOOLEAN, n \in 0..MaxEntryLen : WriteLine(ok, n)
    \/ PrintWrote
    \/ PrintStats

Spec == Init /\ [][Next]_vars

-----------------------------------------------------------------------------
(* Direct calls of the two library functions on one arbitrary string *)

InitFn ==
    /\ arg \in SeqsUpTo(ArgChars, MaxArgLen)
    /\ call = "none"
    /\ ret_words = <<>>
    /\ ret_hex = <<>>
    /\ translate = FALSE
    /\ file = <<>>
    /\ in_ok = TRUE
    /\ output = FALSE
    /\ pc = "lib"
    /\ pos = 1
    /\ words = <<>>
    /\ valid_words = <<>>
    /\ widx = 1
    /\ out_exists = FALSE
    /\ out_bytes = <<>>
    /\ stdout = <<>>
    /\ total_words = 0
    /\ total_valid = 0

CallFindWords(t) ==
    /\ call = "none"
    /\ translate' = t
    /\ ret_words' = find_words(<<arg>>, t)
    /\ call' = "find_words"
    /\ UNCHANGED <<arg, ret_hex>>
    /\ UNCHANGED pipeVars

CallTranslate ==
    /\ call = "none"
    /\ ret_hex' = translate_to_hex(arg)
    /\ call' = "translate_to_hex"
    /\ UNCHANGED <<arg, ret_words, translate>>
    /\ UNCHANGED pipeVars

NextFn ==
    \/ \E t \in BOOLEAN : CallFindWords(t)
    \/ CallTranslate

SpecFn == InitFn /\ [][NextFn]_vars

-----------------------------------------------------------------------------
(* Vocabulary of the properties, stated independently of the definitions   *)
(* above: the alphabet and the table as the specification lists them, and  *)
(* line splitting, trimming and ordering by structural recursion.          *)

\* a, b, c, d, e, f, g, i, l, o, s, t, z
AllowedAlphabet ==
    {97, 98, 99, 100, 101, 102, 103, 105, 108, 111, 115, 116, 122}

\* A, B, C, D, E, F, 0, 1, 2, 5, 6, 7
GlyphSet == {65, 66, 67, 68, 69, 70, 48, 49, 50, 53, 54, 55}

\* a->A b->B c->C d->D e->E f->F g->6 i->1 l->1 o->0 s->5 t->7 z->2, else '?'
GlyphOf(c) ==
    CASE c = 97 -> 65 [] c = 98 -> 66 [] c = 99 -> 67 [] c = 100 -> 68
      [] c = 101 -> 69 [] c = 102 -> 70 [] c = 103 -> 54 [] c = 105 -> 49
      [] c = 108 -> 49 [] c = 111 -> 48 [] c = 115 -> 53 [] c = 116 -> 55
      [] c = 122 -> 50 [] OTHER -> 63

EachCharAllowed(w) == \A i \in 1..Len(w) : w[i] \in AllowedAlphabet

\* the result entry of an accepted word
EntryOf(w, t) ==
    IF t THEN w \o <<58, 48, 120>> \o [i \in 1..Len(w) |-> GlyphOf(w[i])]
    ELSE w

\* the text of bytes cut at every '\n'; nothing follows a final '\n'
RECURSIVE SplitLines(_)
SplitLines(bytes) ==
    IF bytes = <<>> THEN <<>>
    ELSE IF \A j \in 1..Len(bytes) : bytes[j] # 10 THEN <<bytes>>
    ELSE LET m == CHOOSE j \in 1..Len(bytes) :
                      bytes[j] = 10 /\ \A k \in 1..(j - 1) : bytes[k] # 10
         IN  <<SubSeq(bytes, 1, m - 1)>>
                 \o SplitLines(SubSeq(bytes, m + 1, Len(bytes)))

\* the lines of bytes that are terminated by '\n'
CompleteLines(bytes) ==
    LET nl == {j \in 1..Len(bytes) : bytes[j] = 10}
    IN  IF nl = {} THEN <<>>
        ELSE SplitLines(SubSeq(bytes, 1, CHOOSE j \in nl : \A k \in nl : k <= j))

\* what follows the last '\n' of bytes
LastFragment(bytes) ==
    LET nl == {j \in 1..Len(bytes) : bytes[j] = 10}
    IN  IF nl = {} THEN bytes
        ELSE SubSeq(bytes, (CHOOSE j \in nl : \A k \in nl : k <= j) + 1, Len(bytes))

Blank(c) == c \in {9, 10, 11, 12, 13, 32}

RECURSIVE StripBlanks(_)
StripBlanks(s) ==
    IF s = <<>> THEN s
    ELSE IF Blank(s[1]) THEN StripBlanks(Tail(s))
    ELSE IF Blank(s[Len(s)]) THEN StripBlanks(SubSeq(s, 1, Len(s) - 1))
    ELSE s

NonEmpty(s) == s # <<>>

\* the words of a wordlist: its lines, trimmed, the empty ones left out
WordsOf(bytes) ==
    LET ls == SplitLines(bytes)
    IN  SelectSeq([i \in 1..Len(ls) |-> StripBlanks(ls[i])], NonEmpty)

RECURSIVE LexLess(_, _)
LexLess(a, b) ==
    IF b = <<>> THEN FALSE
    ELSE IF a = <<>> THEN TRUE
    ELSE IF a[1] # b[1] THEN a[1] < b[1]
    ELSE LexLess(Tail(a), Tail(b))

Ascending(L) == \A i \in 1..(Len(L) - 1) : L[i] = L[i + 1] \/ LexLess(L[i], L[i + 1])

Occurrences(L, e) == Cardinality({i \in 1..Len(L) : L[i] = e})

\* the part of an entry before its first ':'
WordPrefix(e) ==
    LET c == {i \in 1..Len(e) : e[i] = 58}
    IN  IF c = {} THEN e
        ELSE SubSeq(e, 1, (CHOOSE i \in c : \A k \in c : i <= k) - 1)

TimesPrinted(msg) == Cardinality({i \in 1..Len(stdout) : stdout[i] = msg})

FailedNotice == "Failed to write results!"

SuccessNotice == "Successfully wrote results to <path>!"

ReadDone == pc \in {"find", "create", "writing", "wrote", "stats", "done", "create_error"}

-----------------------------------------------------------------------------
(* Properties *)

\* C1: find_words keeps a word if and only if each of its characters,
\* checked on its own and without lowercasing, is one of the 13 letters
\* a,b,c,d,e,f,g,i,l,o,s,t,z; a kept word yields exactly one entry, the word
\* itself when translation is off.
C1_FilterIffEachCharAllowed ==
    call = "find_words" =>
        /\ (ret_words # <<>>) <=> EachCharAllowed(arg)
        /\ ret_words # <<>> => Len(ret_words) = 1
        /\ (ret_words # <<>> /\ ~translate) => ret_words[1] = arg

\* a word with an inner space between two allowed letters is rejected
C1_Witness ==
    /\ call = "find_words"
    /\ Len(arg) = 3
    /\ arg[1] = 97 /\ arg[2] = 32 /\ arg[3] = 98
    /\ ret_words = <<>>

\* C2: translate_to_hex(w), for any string w, is "0x" followed by one glyph
\* per character of w in order, the glyph being the table value of the
\* character and '?' outside the table; its length is Len(w) + 2.
C2_TranslateIsPrefixPlusGlyphs ==
    call = "translate_to_hex" =>
        /\ Len(ret_hex) = Len(arg) + 2
        /\ ret_hex[1] = 48 /\ ret_hex[2] = 120
        /\ \A i \in 1..Len(arg) : ret_hex[i + 2] = GlyphOf(arg[i])

\* a string mixing table letters and a character outside the table
C2_Witness ==
    /\ call = "translate_to_hex"
    /\ Len(arg) = 3
    /\ arg[1] = 108 /\ arg[2] = 104 /\ arg[3] = 105
    /\ ret_hex = <<48, 120, 49, 63, 49>>

\* C3: with an output path and no failed write, the lines of the output
\* file are the entries of the accepted input words, one per accepted
\* occurrence, in ascending code point order; sorting them again changes
\* nothing.
C3_OutputIsSortedAcceptedEntries ==
    (pc \in {"wrote", "stats", "done"} /\ output /\ TimesPrinted(FailedNotice) = 0) =>
        LET L == SplitLines(out_bytes)
            ws == WordsOf(file)
            acc == {i \in 1..Len(ws) : EachCharAllowed(ws[i])}
        IN  /\ LastFragment(out_bytes) = <<>>
            /\ Len(L) = Cardinality(acc)
            /\ \A i \in acc :
                   Occurrences(L, EntryOf(ws[i], translate))
                       = Cardinality({j \in acc : ws[j] = ws[i]})
            /\ Ascending(L)
            /\ sort(L) = L

\* three accepted words, one of them twice, read in descending order
C3_Witness ==
    /\ pc = "done" /\ output /\ ~translate
    /\ TimesPrinted(FailedNotice) = 0
    /\ words = << <<115>>, <<97>>, <<97>> >>
    /\ out_bytes = <<97, 10, 97, 10, 115, 10>>

\* C4: the words read are the lines of the input, trimmed, without the
\* lines that are empty after trimming, in input order; the reported total
\* is their number.
C4_WordsAreTrimmedNonEmptyLines ==
    /\ ReadDone \/ pc = "stats" \/ pc = "done" => words = WordsOf(file)
    /\ pc = "done" =>
           total_words = Cardinality({i \in 1..Len(SplitLines(file)) :
                                         StripBlanks(SplitLines(file)[i]) # <<>>})

\* " a\n\ns": a padded line, a blank line, a last line without newline
C4_Witness ==
    /\ pc = "done"
    /\ file = <<32, 97, 10, 10, 115>>
    /\ total_words = 2
    /\ words = << <<97>>, <<115>> >>

\* C5: at the stats step the qualifying count is at most the total count,
\* and they are equal exactly when every retained word passes the filter.
C5_ValidAtMostTotal ==
    pc = "done" =>
        /\ total_valid <= total_words
        /\ (total_valid = total_words)
               <=> \A i \in 1..Len(words) : EachCharAllowed(words[i])

\* translate mode, one word kept and one rejected
C5_Witness ==
    /\ pc = "done" /\ translate
    /\ total_words = 2 /\ total_valid = 1

\* C6: once the write of line k has failed, the notice was printed once, the
\* file holds exactly the first k-1 entries as lines (then at most an
\* unterminated piece of entry k), main has not returned an error and goes
\* on to the stats, which report the counts of the input.
C6_WriteFailureStopsWriting ==
    TimesPrinted(FailedNotice) > 0 =>
        /\ TimesPrinted(FailedNotice) = 1
        /\ pc \in {"wrote", "stats", "done"}
        /\ pc # "done" => ENABLED Next
        /\ widx \in 1..Len(valid_words)
        /\ CompleteLines(out_bytes) = SubSeq(valid_words, 1, widx - 1)
        /\ \E n \in 0..Len(valid_words[widx]) :
               LastFragment(out_bytes) = SubSeq(valid_words[widx], 1, n)
        /\ pc = "done" =>
               /\ total_words = Len(WordsOf(file))
               /\ total_valid = Cardinality({i \in 1..Len(WordsOf(file)) :
                                                EachCharAllowed(WordsOf(file)[i])})

\* three entries, the write of the second failed outright
C6_Witness ==
    /\ pc = "done"
    /\ TimesPrinted(FailedNotice) = 1
    /\ Len(valid_words) = 3 /\ widx = 2
    /\ out_bytes = valid_words[1] \o <<10>>
    /\ total_valid = 3

\* C7: when the input cannot be opened or one of its lines cannot be read,
\* main has returned the error and does nothing more: nothing was filtered,
\* the output file is as it was (neither created nor truncated), nothing was
\* printed.
C7_ReadErrorAbortsBeforeProcessing ==
    /\ (~in_ok /\ pc # "start") => pc = "read_error"
    /\ pc = "read_error" =>
           /\ ~ENABLED Next
           /\ valid_words = <<>>
           /\ out_bytes = (IF out_exists THEN OldOutput ELSE <<>>)
           /\ stdout = <<>>
           /\ total_words = 0 /\ total_valid = 0

\* the last line fails after two words were read, an output path is given
C7_Witness ==
    /\ pc = "read_error"
    /\ in_ok /\ output
    /\ Len(words) = 2
    /\ NextPos(file, pos) > Len(file)

\* C8: the success line is printed only if an output path was given and
\* every entry was written, and never together with the failure notice.
C8_SuccessOnlyIfAllWritten ==
    TimesPrinted(SuccessNotice) > 0 =>
        /\ output
        /\ CompleteLines(out_bytes) = valid_words
        /\ TimesPrinted(FailedNotice) = 0

\* C9: in translate mode every entry is word:0x<glyphs> for a word that
\* passed the filter, with one glyph per letter, each glyph one of
\* A,B,C,D,E,F,0,1,2,5,6,7 and none of them '?'.
C9_NoFallbackGlyph ==
    (call = "find_words" /\ translate) =>
        \A k \in 1..Len(ret_words) :
            LET e == ret_words[k]
                n == Len(arg)
            IN  /\ EachCharAllowed(arg)
                /\ Len(e) = 2 * n + 3
                /\ SubSeq(e, 1, n) = arg
                /\ SubSeq(e, n + 1, n + 3) = <<58, 48, 120>>
                /\ \A i \in (n + 4)..Len(e) : e[i] \in GlyphSet /\ e[i] # 63

\* "zig" is kept and rendered as zig:0x216
C9_Witness ==
    /\ call = "find_words" /\ translate
    /\ arg = <<122, 105, 103>>
    /\ ret_words = << <<122, 105, 103, 58, 48, 120, 50, 49, 54>> >>

\* C10: the word prefixes of the sorted translate-mode entries are the
\* sorted result of the same input with translation off.
C10_TranslatedSortByWord ==
    (translate /\ pc \in {"create", "writing", "wrote", "stats", "done", "create_error"}) =>
        [i \in 1..Len(valid_words) |-> WordPrefix(valid_words[i])]
            = sort(find_words(words, FALSE))

\* "as" read before its proper prefix "a", and "aa"
C10_Witness ==
    /\ translate /\ pc = "done"
    /\ Len(words) = 2
    /\ words[1] = <<97, 115>> /\ words[2] = <<97>>
    /\ valid_words[1] = <<97, 58, 48, 120, 65>>

====
